---- MODULE Spec2Model ----
(***************************************************************************)
(* A model of buildstream's Messenger (src/buildstream/_messenger.py):     *)
(* the per-thread _MessageHandler objects with their silence depth and job *)
(* log, and the context managers silence, timed_activity and               *)
(* recorded_messages, each split in its entry half (up to the yield) and   *)
(* its exit half (from the yield on, by normal return or by an exception   *)
(* thrown into the generator).                                             *)
(***************************************************************************)
EXTENDS Integers, Sequences, FiniteSets, TLC

\* ------------------------------------------------------------------ bounds
MaxOps == 3        \* calls of message() and scope entries made by callers in one run
MaxDepth == 3      \* open context managers per thread
MaxTime == 1       \* ticks of datetime.datetime.now()
MaxRenders == 2    \* ticks of datetime.datetime.now() while tasks report progress
MaxClock == 2      \* ticks of datetime.datetime.now() where the process is stopped and resumed
MaxSleep == 4      \* seconds a task's bodies sleep in all
MaxProgress == 1   \* subtasks a task reports
MaxHours == 100    \* hours an activity takes

\* ------------------------------------------------------------- vocabulary
Threads == {"main", "worker"}
FileNames == {"build"}
LogDir == "logs"
Pid == "pid"
BodyTypes == {"info", "fail"}
NoHandler == "none"
NoError == "none"
NoFile == <<>>
NoElapsed == <<>>
NoState == <<>>
NoName == ""
NoDetail == <<>>
NoProgress == <<>>
ActivityName == "build"
FullNames == {NoName, "element"}

\* A thread sets its handler once; the handler object is named after the thread
Handlers == Threads

VARIABLES
    handlers,    \* handler object -> its fields
    locals,      \* thread -> Messenger._locals.message_handler (None or a handler)
    root,        \* Messenger._root_message_handler (None or a handler)
    stack,       \* thread -> the context managers it has open, outermost first
    exc,         \* thread -> the exception in flight in it, or NoError
    files,       \* path of each log file that exists -> its lines
    hooks,       \* the terminator callbacks installed: set of handlers whose flush_log is installed
    now,         \* datetime.datetime.now()
    ops,         \* history: the number of calls made by callers so far
    calls,       \* history: the records passed to Messenger.message(), in order
    upstream,    \* history: the invocations of handler callbacks, in order
    state,       \* Messenger._state: NoState, or the State object (its task registry)
    active,      \* Messenger._active_simple_tasks
    next_render, \* Messenger._next_render: <<>> for None, or <<instant>>
    render_cb,   \* whether Messenger._render_status_cb is set
    taskobjs,    \* number of a simple_task's START record -> the _Task it was given
    pending,     \* thread -> the value of _active_simple_tasks it has loaded and not yet stored
    renders,     \* history: the instants at which the render status callback was invoked
    quiet,       \* history: <<instant>> of the last task added with no task active, or <<>>
    clocks,      \* number of an activity's START record -> stopped_time of its timed_suspendable, with history
    suspended,   \* whether the process is stopped (between the stop and the resume hooks)
    got,         \* history: thread -> what its last get_log_filename() returned
    terminated,  \* history: the runs of flush_log made when the process was terminated
    test_suite,  \* whether "BST_TEST_SUITE" was in os.environ when the module was imported
    timecode     \* history: <<>>, or <<the type, elapsed time and timecode of the last line formatted>>

\* The task registry, the render throttle and the suspendable clocks
taskvars == <<state, active, next_render, render_cb, taskobjs, pending, renders, quiet>>
clockvars == <<clocks, suspended>>
extras == <<terminated, test_suite, timecode>>
others == <<taskvars, clockvars, got, extras>>

vars == <<handlers, locals, root, stack, exc, files, hooks, now, ops, calls, upstream, others>>

\* ------------------------------------------------------- _MessageHandler

\* os.path.join(logdir, "{}.{}.log".format(filename, os.getpid()))
LogFilename(filename, logdir) == <<logdir, filename, Pid, "log">>

Paths == {LogFilename(f, LogDir) : f \in FileNames}

\* _MessageHandler.__init__
NewHandler == [log_handle |-> NoFile, log_filename |-> NoFile, depth |-> 0, closed |-> FALSE]

\* _MessageHandler._silent_messages
SilentMessages(hs, h) == hs[h].depth > 0

\* The outcome of _MessageHandler._record_message for record number n:
\* "skip" when no log handle is set, "error" when the handle is a closed file
\* (write() raises ValueError), "write" otherwise.
RecordOutcome(hs, h) ==
    IF hs[h].log_handle = NoFile THEN "skip"
    ELSE IF hs[h].closed THEN "error"
    ELSE "write"

\* The log line of a record (the text is kept abstract: the record's number and kind)
LogLine(n, type) == [msg |-> n, type |-> type]

\* A _record_message that leaves silenced records out of the log
RecordMessageUnlessSilenced(fs, hs, h, n, type) ==
    IF RecordOutcome(hs, h) = "write" /\ ~SilentMessages(hs, h)
    THEN [fs EXCEPT ![hs[h].log_handle] = Append(@, LogLine(n, type))]
    ELSE fs

\* _MessageHandler._record_message: the files after the record is written
RecordMessage(fs, hs, h, n, type) ==
    IF RecordOutcome(hs, h) = "write"
    THEN [fs EXCEPT ![hs[h].log_handle] = Append(@, LogLine(n, type))]
    ELSE fs


\* A message() that keeps LOG records to the log
HandlerMessageKeepsLog(c, hs, h, n, type) ==
    IF RecordOutcome(hs, h) = "error"
    THEN [c EXCEPT !.err = "ValueError"]
    ELSE IF type = "log" /\ RecordOutcome(hs, h) = "write"
    THEN [c EXCEPT !.files = RecordMessage(c.files, hs, h, n, type)]
    ELSE [c EXCEPT !.files = RecordMessage(c.files, hs, h, n, type),
                   !.upstream = Append(@, [msg |-> n, h |-> h,
                                           is_silenced |-> SilentMessages(hs, h)])]

\* A message() that invokes the callback before it writes the log
HandlerMessageCallbackFirst(c, hs, h, n, type) ==
    LET called == [c EXCEPT !.upstream = Append(@, [msg |-> n, h |-> h,
                                                   is_silenced |-> SilentMessages(hs, h)])]
    IN  IF RecordOutcome(hs, h) = "error"
        THEN [called EXCEPT !.err = "ValueError"]
        ELSE [called EXCEPT !.files = RecordMessage(c.files, hs, h, n, type)]

\* _MessageHandler.message: _record_message, then the callback with
\* is_silenced=_silent_messages(). A failed write raises before the callback.
\* c is [files, upstream, calls, err]; n is the number of the record.
HandlerMessage(c, hs, h, n, type) ==
    IF RecordOutcome(hs, h) = "error"
    THEN [c EXCEPT !.err = "ValueError"]
    ELSE [c EXCEPT !.files = RecordMessage(c.files, hs, h, n, type),
                   !.upstream = Append(@, [msg |-> n, h |-> h,
                                           is_silenced |-> SilentMessages(hs, h)])]

\* _MessageHandler.silence, up to the yield
HandlerSilenceEnter(hs, h) == [hs EXCEPT ![h].depth = @ + 1]

\* A silence exit that decrements without the assertion
HandlerSilenceExitUnchecked(hs, h, e) ==
    [hs |-> [hs EXCEPT ![h].depth = @ - 1], err |-> e]

\* _MessageHandler.silence, the finally clause: the failed assertion raises
\* before the decrement. Gives the handlers and the exception that leaves.
HandlerSilenceExit(hs, h, e) ==
    IF hs[h].depth > 0
    THEN [hs |-> [hs EXCEPT ![h].depth = @ - 1], err |-> e]
    ELSE [hs |-> hs, err |-> "AssertionError"]

\* A recorded_messages without the two assertions
RecordedMessagesAcceptsAlways(hs, h) == TRUE

\* _MessageHandler.recorded_messages, the two assertions at its head
RecordedMessagesAccepts(hs, h) ==
    hs[h].log_handle = NoFile /\ hs[h].log_filename = NoFile

\* _MessageHandler.recorded_messages, up to the yield
HandlerRecordedEnter(hs, h, path) ==
    [hs EXCEPT ![h].log_filename = path,
               ![h].depth = 0,
               ![h].log_handle = path,
               ![h].closed = FALSE]

\* _MessageHandler.recorded_messages, after the yield: `with open` closes the
\* file on every path, the two fields are reset only when the body returned.
HandlerRecordedExit(hs, h, e) ==
    IF e = NoError
    THEN [hs EXCEPT ![h].log_handle = NoFile, ![h].log_filename = NoFile, ![h].closed = FALSE]
    ELSE [hs EXCEPT ![h].closed = TRUE]

\* ------------------------------------------------------------- Messenger

\* Messenger._message_handler read by thread t: the error it raises, if any.
\* _locals is a threading.local whose message_handler attribute is set to None
\* by __init__ in the constructing (main) thread only.
NoHandlerError(t) == IF t = "main" THEN "AssertionError" ELSE "AttributeError"

\* A message() that routes every record to the thread's own handler
TargetOwn(t, use_root_handler) == locals[t]

\* The handler Messenger.message routes to
Target(t, use_root_handler) == IF use_root_handler THEN root ELSE locals[t]

\* The exception Messenger.message raises before it reaches a handler
TargetError(t, use_root_handler) ==
    IF Target(t, use_root_handler) # NoHandler THEN NoError
    ELSE IF use_root_handler THEN "AssertionError"
    ELSE NoHandlerError(t)

\* history: the logs of the job recording scopes open on handler h
ScopeFiles(h) ==
    {stack[t][i].file : <<t, i>> \in
        {x \in Threads \X (1..MaxDepth + 1) :
            /\ x[2] <= Len(stack[x[1]])
            /\ stack[x[1]][x[2]].kind = "recorded_messages"
            /\ stack[x[1]][x[2]].h = h}}

\* history: the log of the job recording scope open on handler h, if any
ScopeFile(h) == IF ScopeFiles(h) = {} THEN NoFile ELSE CHOOSE p \in ScopeFiles(h) : TRUE

\* history: the record passed to Messenger.message
Call(t, type, act, elapsed, use_root_handler) ==
    [type |-> type, act |-> act, elapsed |-> elapsed, detail |-> NoDetail, thread |-> t,
     h |-> Target(t, use_root_handler),
     scope |-> ScopeFile(Target(t, use_root_handler))]

\* Messenger.message called by thread t: c is [files, upstream, calls, err].
\* A call that finds no handler raises before any handler sees the record.
MessengerMessage(c, hs, t, type, act, elapsed, use_root_handler) ==
    LET c1 == [c EXCEPT !.calls = Append(@, Call(t, type, act, elapsed, use_root_handler))]
        n == Len(c1.calls)
    IN  IF TargetError(t, use_root_handler) # NoError
        THEN [c EXCEPT !.err = TargetError(t, use_root_handler)]
        ELSE HandlerMessage(c1, hs, Target(t, use_root_handler), n, type)

\* The histories and files before a call
Ctx == [files |-> files, upstream |-> upstream, calls |-> calls, err |-> NoError]

\* A Messenger.silence that silences whatever actually_silence says
SilenceEnterAlways(hs, h, actually_silence) ==
    IF h = NoHandler THEN hs ELSE HandlerSilenceEnter(hs, h)

\* Messenger.silence, up to the yield: nothing when actually_silence is false
SilenceEnter(hs, h, actually_silence) ==
    IF actually_silence THEN HandlerSilenceEnter(hs, h) ELSE hs

\* Messenger.silence, after the yield
SilenceExit(hs, h, actually_silence, e) ==
    IF actually_silence THEN HandlerSilenceExit(hs, h, e) ELSE [hs |-> hs, err |-> e]


\* --------------------------------------------------------------- state

\* An open context manager: kind, the handler its silence or recording is
\* bound to (h), its flag (actually_silence / silent_nested), the number of its
\* START record (id), timedata.start_time (start), its log (file), and as
\* history the depth of h before it was entered (pre).
Frame(kind, h, flag, id, start, file, pre) ==
    [kind |-> kind, h |-> h, flag |-> flag, id |-> id, start |-> start,
     file |-> file, pre |-> pre]

Top(t) == stack[t][Len(stack[t])]
Pop(t) == [stack EXCEPT ![t] = SubSeq(@, 1, Len(@) - 1)]
Push(t, f) == [stack EXCEPT ![t] = Append(@, f)]

\* Messenger.__init__
Constructed ==
    /\ handlers = [h \in Handlers |-> NewHandler]
    /\ locals = [t \in Threads |-> NoHandler]
    /\ root = NoHandler
    /\ stack = [t \in Threads |-> <<>>]
    /\ exc = [t \in Threads |-> NoError]
    /\ files = <<>>
    /\ hooks = {}
    /\ now = 0
    /\ ops = 0
    /\ calls = <<>>
    /\ upstream = <<>>
    /\ state = NoState
    /\ active = 0
    /\ next_render = <<>>
    /\ render_cb = FALSE
    /\ taskobjs = <<>>
    /\ pending = [t \in Threads |-> <<>>]
    /\ renders = <<>>
    /\ quiet = <<>>
    /\ clocks = <<>>
    /\ suspended = FALSE
    /\ got = [t \in Threads |-> NoFile]
    /\ terminated = <<>>
    /\ timecode = <<>>

\* The module is imported outside the test suite and a Messenger constructed
Init == Constructed /\ test_suite = FALSE

\* The module is imported, in the test suite or not, and a Messenger constructed
InitEnv == Constructed /\ test_suite \in BOOLEAN

\* Thread t is running (no exception in flight); it may make one more call;
\* it may open one more scope
Running(t) == exc[t] = NoError
MayCall(t) == Running(t) /\ ops < MaxOps
MayOpen(t) == MayCall(t) /\ Len(stack[t]) < MaxDepth

\* datetime.datetime.now() advances
Tick ==
    /\ now < MaxTime
    /\ \E t \in Threads : \E i \in 1..Len(stack[t]) : stack[t][i].kind = "timed_activity"
    /\ now' = now + 1
    /\ UNCHANGED <<handlers, locals, root, stack, exc, files, hooks, ops, calls, upstream>>
    /\ UNCHANGED others

\* Messenger.set_message_handler, called once by a thread before it opens a scope
SetMessageHandler(t) ==
    /\ Running(t)
    /\ locals[t] = NoHandler
    /\ handlers' = [handlers EXCEPT ![t] = NewHandler]
    /\ locals' = [locals EXCEPT ![t] = t]
    /\ UNCHANGED <<root, stack, exc, files, hooks, now, ops, calls, upstream>>
    /\ UNCHANGED others

\* Messenger.set_root_message_handler, called once by a thread before it opens a scope
SetRootMessageHandler(t) ==
    /\ Running(t)
    /\ locals[t] = NoHandler
    /\ handlers' = [handlers EXCEPT ![t] = NewHandler]
    /\ root' = t
    /\ locals' = [locals EXCEPT ![t] = t]
    /\ UNCHANGED <<stack, exc, files, hooks, now, ops, calls, upstream>>
    /\ UNCHANGED others

\* Messenger.message called from the body of thread t
Message(t, type, use_root_handler) ==
    /\ MayCall(t)
    /\ ops' = ops + 1
    /\ LET c == MessengerMessage(Ctx, handlers, t, type, 0, NoElapsed, use_root_handler)
       IN  /\ files' = c.files
           /\ upstream' = c.upstream
           /\ calls' = c.calls
           /\ exc' = [exc EXCEPT ![t] = c.err]
    /\ UNCHANGED <<handlers, locals, root, stack, hooks, now>>
    /\ UNCHANGED others

\* Messenger.silence, up to the yield
EnterSilence(t, actually_silence) ==
    /\ MayOpen(t)
    /\ IF actually_silence /\ locals[t] = NoHandler
       THEN /\ exc' = [exc EXCEPT ![t] = NoHandlerError(t)]
            /\ UNCHANGED <<handlers, stack>>
       ELSE /\ handlers' = SilenceEnter(handlers, locals[t], actually_silence)
            /\ stack' = Push(t, Frame("silence", IF actually_silence THEN locals[t] ELSE NoHandler,
                                      actually_silence, 0, 0, NoFile,
                                      IF locals[t] = NoHandler THEN 0
                                      ELSE handlers[locals[t]].depth))
            /\ UNCHANGED exc
    /\ ops' = ops + 1
    /\ UNCHANGED <<locals, root, files, hooks, now, calls, upstream>>
    /\ UNCHANGED others

\* Messenger.silence, after the yield: the body returned or raised exc[t]
ExitSilence(t) ==
    /\ stack[t] # <<>>
    /\ Top(t).kind = "silence"
    /\ LET r == SilenceExit(handlers, Top(t).h, Top(t).flag, exc[t])
       IN  /\ handlers' = r.hs
           /\ exc' = [exc EXCEPT ![t] = r.err]
    /\ stack' = Pop(t)
    /\ UNCHANGED <<locals, root, files, hooks, now, ops, calls, upstream>>
    /\ UNCHANGED others


\* open(path, "a"): the file is created when it does not exist
OpenAppend(fs, path) == IF path \in DOMAIN fs THEN fs ELSE fs @@ (path :> <<>>)

\* Messenger.timed_activity, up to the yield: timed_suspendable takes the start
\* time, START is passed to message(), the silence scope is entered. An error
\* raised by message() is no BstError and leaves the context manager.
EnterTimedActivity(t, silent_nested) ==
    /\ MayOpen(t)
    /\ ops' = ops + 1
    /\ LET id == Len(calls) + 1
           c == MessengerMessage(Ctx, handlers, t, "start", id, NoElapsed, FALSE)
       IN  /\ files' = c.files
           /\ upstream' = c.upstream
           /\ calls' = c.calls
           /\ exc' = [exc EXCEPT ![t] = c.err]
           /\ IF c.err # NoError
              THEN UNCHANGED <<handlers, stack>>
              ELSE /\ handlers' = SilenceEnter(handlers, locals[t], silent_nested)
                   /\ stack' = Push(t, Frame("timed_activity",
                                             IF silent_nested THEN locals[t] ELSE NoHandler,
                                             silent_nested, id, now, NoFile,
                                             handlers[locals[t]].depth))
    /\ UNCHANGED <<locals, root, hooks, now>>
    /\ UNCHANGED others

\* Messenger.timed_activity, after the yield, for the frame f of thread t whose
\* body returned (e = NoError) or raised e: the silence scope exits first; then
\* FAIL is passed to message() and the error raised again on a BstError,
\* SUCCESS is passed to message() on a normal return, and any other error
\* just propagates. Gives the handlers, files, histories and the error that leaves.
TimedActivityExit(hs, t, f, e) ==
    LET r == SilenceExit(hs, f.h, f.flag, e)
        elapsed == <<now - f.start>>
    IN  IF r.err = "BstError"
        THEN LET c == MessengerMessage(Ctx, r.hs, t, "fail", f.id, elapsed, FALSE)
             IN  [hs |-> r.hs,
                  c |-> IF c.err = NoError THEN [c EXCEPT !.err = "BstError"] ELSE c]
        ELSE IF r.err = NoError
        THEN [hs |-> r.hs, c |-> MessengerMessage(Ctx, r.hs, t, "success", f.id, elapsed, FALSE)]
        ELSE [hs |-> r.hs, c |-> [Ctx EXCEPT !.err = r.err]]

ExitTimedActivity(t) ==
    /\ stack[t] # <<>>
    /\ Top(t).kind = "timed_activity"
    /\ LET r == TimedActivityExit(handlers, t, Top(t), exc[t])
       IN  /\ handlers' = r.hs
           /\ files' = r.c.files
           /\ upstream' = r.c.upstream
           /\ calls' = r.c.calls
           /\ exc' = [exc EXCEPT ![t] = r.c.err]
    /\ stack' = Pop(t)
    /\ UNCHANGED <<locals, root, hooks, now, ops>>
    /\ UNCHANGED others

\* A recorded_messages that opens the log before it looks at the handler
EnterRecordedMessagesOpensFirst(t, filename) ==
    /\ MayOpen(t)
    /\ IF locals[t] = NoHandler
       THEN /\ exc' = [exc EXCEPT ![t] = NoHandlerError(t)]
            /\ UNCHANGED <<handlers, stack, files, hooks>>
       ELSE IF ~RecordedMessagesAccepts(handlers, locals[t])
       THEN /\ exc' = [exc EXCEPT ![t] = "AssertionError"]
            /\ files' = OpenAppend(files, LogFilename(filename, LogDir))
            /\ UNCHANGED <<handlers, stack, hooks>>
       ELSE /\ handlers' = HandlerRecordedEnter(handlers, locals[t], LogFilename(filename, LogDir))
            /\ files' = OpenAppend(files, LogFilename(filename, LogDir))
            /\ hooks' = hooks \cup {locals[t]}
            /\ stack' = Push(t, Frame("recorded_messages", locals[t], FALSE, 0, 0,
                                      LogFilename(filename, LogDir), handlers[locals[t]].depth))
            /\ UNCHANGED exc
    /\ ops' = ops + 1
    /\ UNCHANGED <<locals, root, now, calls, upstream>>
    /\ UNCHANGED others

\* Messenger.recorded_messages, up to the yield
EnterRecordedMessages(t, filename) ==
    /\ MayOpen(t)
    /\ IF locals[t] = NoHandler
       THEN /\ exc' = [exc EXCEPT ![t] = NoHandlerError(t)]
            /\ UNCHANGED <<handlers, stack, files, hooks>>
       ELSE IF ~RecordedMessagesAccepts(handlers, locals[t])
       THEN /\ exc' = [exc EXCEPT ![t] = "AssertionError"]
            /\ UNCHANGED <<handlers, stack, files, hooks>>
       ELSE /\ handlers' = HandlerRecordedEnter(handlers, locals[t], LogFilename(filename, LogDir))
            /\ files' = OpenAppend(files, LogFilename(filename, LogDir))
            /\ hooks' = hooks \cup {locals[t]}
            /\ stack' = Push(t, Frame("recorded_messages", locals[t], FALSE, 0, 0,
                                      LogFilename(filename, LogDir), handlers[locals[t]].depth))
            /\ UNCHANGED exc
    /\ ops' = ops + 1
    /\ UNCHANGED <<locals, root, now, calls, upstream>>
    /\ UNCHANGED others

\* Messenger.recorded_messages, after the yield: the body returned or raised exc[t]
ExitRecordedMessages(t) ==
    /\ stack[t] # <<>>
    /\ Top(t).kind = "recorded_messages"
    /\ handlers' = HandlerRecordedExit(handlers, Top(t).h, exc[t])
    /\ hooks' = hooks \ {Top(t).h}
    /\ stack' = Pop(t)
    /\ UNCHANGED <<locals, root, exc, files, now, ops, calls, upstream>>
    /\ UNCHANGED others

\* The body of the innermost scope of thread t raises: a BstError or another error
Raise(t, e) ==
    /\ Running(t)
    /\ stack[t] # <<>>
    /\ exc' = [exc EXCEPT ![t] = e]
    /\ UNCHANGED <<handlers, locals, root, stack, files, hooks, now, ops, calls, upstream>>
    /\ UNCHANGED others

\* The caller of the scopes thread t had open receives the exception
Caught(t) ==
    /\ exc[t] # NoError
    /\ stack[t] = <<>>
    /\ exc' = [exc EXCEPT ![t] = NoError]
    /\ UNCHANGED <<handlers, locals, root, stack, files, hooks, now, ops, calls, upstream>>
    /\ UNCHANGED others

\* The body of the innermost scope of thread t catches the exception that a
\* scope or a call inside it raised
Catch(t) ==
    /\ exc[t] # NoError
    /\ stack[t] # <<>>
    /\ exc' = [exc EXCEPT ![t] = NoError]
    /\ UNCHANGED <<handlers, locals, root, stack, files, hooks, now, ops, calls, upstream>>
    /\ UNCHANGED others

\* One step of thread t
ThreadStep(t) ==
    \/ SetMessageHandler(t)
    \/ SetRootMessageHandler(t)
    \/ \E type \in BodyTypes : \E u \in BOOLEAN : Message(t, type, u)
    \/ \E a \in BOOLEAN : EnterSilence(t, a)
    \/ ExitSilence(t)
    \/ \E s \in BOOLEAN : EnterTimedActivity(t, s)
    \/ ExitTimedActivity(t)
    \/ \E f \in FileNames : EnterRecordedMessages(t, f)
    \/ ExitRecordedMessages(t)
    \/ \E e \in {"BstError", "Error"} : Raise(t, e)
    \/ Caught(t)

\* The main thread opens scopes and reports; the worker thread reports through
\* the root handler.
Next ==
    \/ Tick
    \/ ThreadStep("main")
    \/ \E type \in BodyTypes : Message("worker", type, TRUE)
    \/ Caught("worker")

Spec == Init /\ [][Next]_vars

\* ---------------------------------------------------------------- job logs

\* Messenger.get_log_filename: the log_filename of the thread's handler, which
\* must be set
GetLogFilename(t) ==
    /\ MayCall(t)
    /\ ops' = ops + 1
    /\ IF locals[t] = NoHandler
       THEN /\ exc' = [exc EXCEPT ![t] = NoHandlerError(t)]
            /\ got' = got
       ELSE IF handlers[locals[t]].log_filename = NoFile
       THEN /\ exc' = [exc EXCEPT ![t] = "AssertionError"]
            /\ got' = got
       ELSE /\ got' = [got EXCEPT ![t] = handlers[locals[t]].log_filename]
            /\ exc' = exc
    /\ UNCHANGED <<handlers, locals, root, stack, files, hooks, now, calls, upstream>>
    /\ UNCHANGED <<taskvars, clockvars, extras>>

\* The kinds of record a job passes to message()
JobTypes == {"log", "info"}

\* The main thread records a job and asks for its log; both threads report,
\* through their own handler or through the root handler
NextJob ==
    \/ SetMessageHandler("main")
    \/ SetRootMessageHandler("main")
    \/ \E t \in Threads : \E type \in JobTypes : \E u \in BOOLEAN : Message(t, type, u)
    \/ EnterSilence("main", TRUE)
    \/ ExitSilence("main")
    \/ \E f \in FileNames : EnterRecordedMessages("main", f)
    \/ ExitRecordedMessages("main")
    \/ \E t \in Threads : GetLogFilename(t)
    \/ Raise("main", "Error")
    \/ \E t \in Threads : Caught(t)

SpecJob == Init /\ [][NextJob]_vars

\* The log file name of the job thread t runs
JobFile(t) == IF t = "main" THEN "build" ELSE "fetch"

\* One step of a thread that runs a job with a handler of its own
JobStep(t) ==
    \/ SetMessageHandler(t)
    \/ \E type \in JobTypes : Message(t, type, FALSE)
    \/ EnterSilence(t, TRUE)
    \/ ExitSilence(t)
    \/ EnterRecordedMessages(t, JobFile(t))
    \/ ExitRecordedMessages(t)
    \/ Raise(t, "Error")
    \/ Caught(t)

\* Two threads run a job each, with a handler and a log of their own
NextThreads == \E t \in Threads : JobStep(t)

SpecThreads == Init /\ [][NextThreads]_vars

\* _RENDER_INTERVAL: one second, the tick of datetime.datetime.now()
RenderInterval == 1

\* The key a task is registered under: full_name, or activity_name without one
FullName(activity_name, full_name) ==
    IF full_name = NoName THEN activity_name ELSE full_name

\* State.add_task on the State st = <<registered names>>: a name that is
\* registered already is rejected
AddTask(st, name) ==
    IF st = NoState THEN [st |-> st, err |-> "AttributeError"]
    ELSE IF name \in st[1]
    THEN [st |-> st, err |-> "AssertionError"]
    ELSE [st |-> <<st[1] \cup {name}>>, err |-> NoError]

\* State.remove_task: a name that is not registered is rejected
RemoveTask(st, name) ==
    IF st = NoState THEN [st |-> st, err |-> "AttributeError"]
    ELSE IF name \notin st[1]
    THEN [st |-> st, err |-> "KeyError"]
    ELSE [st |-> <<st[1] \ {name}>>, err |-> NoError]

\* A finally clause that leaves the deadline to the next task
SimpleTaskFinallyKeepsDeadline(st, count, deadline, name, e) ==
    LET r == RemoveTask(st, name)
    IN  IF r.err # NoError
        THEN [state |-> st, active |-> active, next_render |-> deadline, err |-> r.err]
        ELSE [state |-> r.st, active |-> count - 1, next_render |-> deadline, err |-> e]

\* The finally clause of simple_task, entered with the error e in flight (or
\* NoError): remove_task, then `-= 1` stores the loaded count less one and the
\* deadline is cleared at 0. An error of remove_task leaves the clause at once.
SimpleTaskFinally(st, count, deadline, name, e) ==
    LET r == RemoveTask(st, name)
    IN  IF r.err # NoError
        THEN [state |-> st, active |-> active, next_render |-> deadline, err |-> r.err]
        ELSE [state |-> r.st, active |-> count - 1,
              next_render |-> IF count - 1 = 0 THEN <<>> ELSE deadline, err |-> e]

\* The value of _active_simple_tasks that `+= 1` or `-= 1` of thread t adds
\* to: the value t has loaded, if another thread ran since, else the current one
Loaded(t) == IF pending[t] = <<>> THEN active ELSE pending[t][1]

\* Whether simple_task tracks a task: a simple_task that always does
SimpleTaskTracksAlways(st) == TRUE

\* Whether simple_task tracks a task: `if not self._state` delegates
SimpleTaskTracks(st) == st # NoState

\* Messenger.set_state, called once before a scope is opened
SetState ==
    /\ state = NoState
    /\ \A t \in Threads : stack[t] = <<>> /\ Running(t)
    /\ state' = <<{}>>
    /\ UNCHANGED <<handlers, locals, root, stack, exc, files, hooks, now, ops, calls, upstream>>
    /\ UNCHANGED <<active, next_render, render_cb, taskobjs, pending, renders, quiet, clockvars, got, extras>>

\* Messenger.set_render_status_cb, called once before a scope is opened
SetRenderStatusCb ==
    /\ ~render_cb
    /\ \A t \in Threads : stack[t] = <<>> /\ Running(t)
    /\ render_cb' = TRUE
    /\ UNCHANGED <<handlers, locals, root, stack, exc, files, hooks, now, ops, calls, upstream>>
    /\ UNCHANGED <<state, active, next_render, taskobjs, pending, renders, quiet, clockvars, got, extras>>

\* The _Task that State.add_task returns: no progress is reported yet
NewTask(name) ==
    [full_name |-> name, current_progress |-> NoProgress, maximum_progress |-> NoProgress]

\* Messenger.simple_task with a State, up to the yield: START is passed to
\* message(), the task is added, the count incremented, a missing deadline
\* set and the silence scope entered. An error of message() or add_task is
\* no BstError: it runs the finally clause and leaves the context manager.
TrackedEnter(t, full_name, silent_nested) ==
    /\ MayOpen(t)
    /\ ops' = ops + 1
    /\ LET id == Len(calls) + 1
           name == FullName(ActivityName, full_name)
           c == MessengerMessage(Ctx, handlers, t, "start", id, NoElapsed, FALSE)
           a == IF c.err # NoError THEN [st |-> state, err |-> c.err] ELSE AddTask(state, name)
           fin == SimpleTaskFinally(a.st, Loaded(t), next_render, name, a.err)
       IN  /\ files' = c.files
           /\ upstream' = c.upstream
           /\ calls' = c.calls
           /\ IF a.err # NoError
              THEN /\ state' = fin.state
                   /\ active' = fin.active
                   /\ next_render' = fin.next_render
                   /\ exc' = [exc EXCEPT ![t] = fin.err]
                   /\ UNCHANGED <<handlers, stack, taskobjs, quiet>>
              ELSE /\ state' = a.st
                   /\ active' = Loaded(t) + 1
                   /\ next_render' = IF next_render = <<>>
                                     THEN <<now + RenderInterval>> ELSE next_render
                   /\ exc' = exc
                   /\ handlers' = SilenceEnter(handlers, locals[t], silent_nested)
                   /\ stack' = Push(t, Frame("simple_task",
                                             IF silent_nested THEN locals[t] ELSE NoHandler,
                                             silent_nested, id, now, NoFile,
                                             handlers[locals[t]].depth))
                   /\ taskobjs' = taskobjs @@ (id :> NewTask(name))
                   /\ quiet' = IF Loaded(t) = 0 THEN <<now>> ELSE quiet
    /\ pending' = [pending EXCEPT ![t] = <<>>]
    /\ UNCHANGED <<locals, root, hooks, now, render_cb, renders, clockvars, got, extras>>

\* Messenger.simple_task, up to the yield: without a State it is timed_activity
EnterSimpleTask(t, full_name, silent_nested) ==
    IF SimpleTaskTracks(state)
    THEN TrackedEnter(t, full_name, silent_nested)
    ELSE EnterTimedActivity(t, silent_nested)

\* _DISPLAY_LIMIT, in seconds: 3, and 0 in the test suite
DisplayLimit == IF test_suite THEN 0 ELSE 3

\* A summary that is added from the display limit on
SimpleTaskDetailAtLimit(task, elapsed) ==
    IF task.current_progress # NoProgress /\ elapsed[1] >= DisplayLimit
    THEN IF task.maximum_progress # NoProgress
         THEN <<[format |-> "{} of {} subtasks processed",
                 args |-> <<task.current_progress[1], task.maximum_progress[1]>>]>>
         ELSE <<[format |-> "{} subtasks processed", args |-> <<task.current_progress[1]>>]>>
    ELSE NoDetail

\* The detail of the SUCCESS message of simple_task: None, or the format
\* string with its arguments
SimpleTaskDetail(task, elapsed) ==
    IF task.current_progress # NoProgress /\ elapsed[1] > DisplayLimit
    THEN IF task.maximum_progress # NoProgress
         THEN <<[format |-> "{} of {} subtasks processed",
                 args |-> <<task.current_progress[1], task.maximum_progress[1]>>]>>
         ELSE <<[format |-> "{} subtasks processed", args |-> <<task.current_progress[1]>>]>>
    ELSE NoDetail

\* The histories after the record message() was just passed is given its detail
Detailed(before, c, detail) ==
    IF Len(c.calls) > Len(before.calls)
    THEN [c EXCEPT !.calls[Len(c.calls)].detail = detail]
    ELSE c

\* Messenger.simple_task with a State, after the yield, for the frame f of
\* thread t whose body returned (e = NoError) or raised e: the silence scope
\* exits; on a BstError FAIL is passed to message(); the finally clause runs;
\* on a normal return SUCCESS is passed to message().
SimpleTaskExit(hs, t, f, e) ==
    LET r == SilenceExit(hs, f.h, f.flag, e)
        elapsed == <<now - f.start>>
        cf == IF r.err = "BstError"
              THEN LET c == MessengerMessage(Ctx, r.hs, t, "fail", f.id, elapsed, FALSE)
                   IN  IF c.err = NoError THEN [c EXCEPT !.err = "BstError"] ELSE c
              ELSE [Ctx EXCEPT !.err = r.err]
        fin == SimpleTaskFinally(state, Loaded(t), next_render, taskobjs[f.id].full_name, cf.err)
    IN  [hs |-> r.hs, fin |-> fin,
         c |-> IF fin.err = NoError
               THEN Detailed(cf, MessengerMessage(cf, r.hs, t, "success", f.id, elapsed, FALSE),
                             SimpleTaskDetail(taskobjs[f.id], elapsed))
               ELSE [cf EXCEPT !.err = fin.err]]

ExitSimpleTask(t) ==
    /\ stack[t] # <<>>
    /\ Top(t).kind = "simple_task"
    /\ LET r == SimpleTaskExit(handlers, t, Top(t), exc[t])
       IN  /\ handlers' = r.hs
           /\ files' = r.c.files
           /\ upstream' = r.c.upstream
           /\ calls' = r.c.calls
           /\ exc' = [exc EXCEPT ![t] = r.c.err]
           /\ state' = r.fin.state
           /\ active' = r.fin.active
           /\ next_render' = r.fin.next_render
    /\ stack' = Pop(t)
    /\ pending' = [pending EXCEPT ![t] = <<>>]
    /\ UNCHANGED <<locals, root, hooks, now, ops>>
    /\ UNCHANGED <<render_cb, taskobjs, renders, quiet, clockvars, got, extras>>

\* A render status that is called whenever progress is reported
RenderDue(deadline) == TRUE

\* Messenger._render_status: the callback is due at the deadline
RenderIsDue(deadline) == now >= deadline[1]

\* A render status that schedules the next render from the deadline it had
RenderStatusOnSchedule(t) ==
    IF next_render = <<>>
    THEN /\ exc' = [exc EXCEPT ![t] = "AssertionError"]
         /\ UNCHANGED <<next_render, renders>>
    ELSE IF render_cb /\ RenderIsDue(next_render)
    THEN /\ renders' = Append(renders, now)
         /\ next_render' = <<next_render[1] + RenderInterval>>
         /\ exc' = exc
    ELSE UNCHANGED <<exc, next_render, renders>>

\* Messenger._render_status, called by a task of thread t
RenderStatus(t) ==
    IF next_render = <<>>
    THEN /\ exc' = [exc EXCEPT ![t] = "AssertionError"]
         /\ UNCHANGED <<next_render, renders>>
    ELSE IF render_cb /\ RenderIsDue(next_render)
    THEN /\ renders' = Append(renders, now)
         /\ next_render' = <<now + RenderInterval>>
         /\ exc' = exc
    ELSE UNCHANGED <<exc, next_render, renders>>

\* The body of thread t reports progress on the task of its i-th open scope
\* with the values the task has: the task calls Messenger._render_status
Progress(t, i) ==
    /\ Running(t)
    /\ i \in 1..Len(stack[t])
    /\ stack[t][i].kind = "simple_task"
    /\ RenderStatus(t)
    /\ UNCHANGED <<handlers, locals, root, stack, files, hooks, now, ops, calls, upstream>>
    /\ UNCHANGED <<state, active, render_cb, taskobjs, pending, quiet, clockvars, got, extras>>

\* datetime.datetime.now() advances while a task is tracked
RenderTick ==
    /\ now < MaxRenders
    /\ \E t \in Threads : \E i \in 1..Len(stack[t]) : stack[t][i].kind = "simple_task"
    /\ now' = now + 1
    /\ UNCHANGED <<handlers, locals, root, stack, exc, files, hooks, ops, calls, upstream>>
    /\ UNCHANGED others

\* One thread configures a State, opens simple tasks and reports progress
NextTasks ==
    \/ SetState
    \/ /\ state # NoState
       /\ \/ RenderTick
          \/ SetMessageHandler("main")
          \/ SetRenderStatusCb
          \/ \E n \in FullNames : \E s \in BOOLEAN : EnterSimpleTask("main", n, s)
          \/ ExitSimpleTask("main")
          \/ \E i \in 1..MaxDepth : Progress("main", i)
          \/ \E e \in {"BstError", "Error"} : Raise("main", e)
          \/ Catch("main")
          \/ Caught("main")

SpecTasks == Init /\ [][NextTasks]_vars

\* One thread configures a State and a render status callback, opens and
\* closes simple tasks and reports progress as time passes; a body may catch
\* what a task it opened raised
NextRender ==
    \/ SetState
    \/ state # NoState /\ SetRenderStatusCb
    \/ /\ render_cb
       /\ \/ RenderTick
          \/ SetMessageHandler("main")
          \/ \E n \in FullNames : EnterSimpleTask("main", n, FALSE)
          \/ ExitSimpleTask("main")
          \/ \E i \in 1..MaxDepth : Progress("main", i)
          \/ Raise("main", "BstError")
          \/ Catch("main")
          \/ Caught("main")

SpecRender == Init /\ [][NextRender]_vars

\* One thread, with a State, a render status callback and a handler, opens
\* and closes simple tasks and reports progress as time passes; a body may
\* catch what a task it opened raised
NextDeadline ==
    \/ SetState
    \/ state # NoState /\ SetRenderStatusCb
    \/ render_cb /\ SetMessageHandler("main")
    \/ /\ locals["main"] # NoHandler
       /\ \/ RenderTick
          \/ \E n \in FullNames : EnterSimpleTask("main", n, FALSE)
          \/ ExitSimpleTask("main")
          \/ \E i \in 1..MaxDepth : Progress("main", i)
          \/ Catch("main")
          \/ Caught("main")

SpecDeadline == Init /\ [][NextDeadline]_vars

\* The name of the task thread t works on
JobTask(t) == IF t = "main" THEN NoName ELSE "element"

\* Thread t, about to enter or to leave a simple_task, loads
\* _active_simple_tasks for the `+= 1` or `-= 1` it will store
LoadCount(t) ==
    /\ Running(t)
    /\ pending[t] = <<>>
    /\ ops < MaxOps \/ (stack[t] # <<>> /\ Top(t).kind = "simple_task")
    /\ pending' = [pending EXCEPT ![t] = <<active>>]
    /\ UNCHANGED <<handlers, locals, root, stack, exc, files, hooks, now, ops, calls, upstream>>
    /\ UNCHANGED <<state, active, next_render, render_cb, taskobjs, renders, quiet, clockvars, got, extras>>

\* Two threads open and close one simple task of their own at a time on one
\* Messenger; no lock orders the load and the store of their updates of the count
ThreadTasks(t) ==
    \/ SetMessageHandler(t)
    \/ LoadCount(t)
    \/ pending[t] # <<>> /\ stack[t] = <<>> /\ EnterSimpleTask(t, JobTask(t), FALSE)
    \/ pending[t] # <<>> /\ ExitSimpleTask(t)

NextRace ==
    \/ SetState
    \/ state # NoState /\ \E t \in Threads : ThreadTasks(t)

SpecRace == Init /\ [][NextRace]_vars

\* One thread opens simple tasks without a State: what is open is the
\* timed_activity that simple_task entered
NextDegraded ==
    \/ Tick
    \/ SetMessageHandler("main")
    \/ \E n \in FullNames : \E s \in BOOLEAN : EnterSimpleTask("main", n, s)
    \/ ExitTimedActivity("main")
    \/ \E e \in {"BstError", "Error"} : Raise("main", e)
    \/ Caught("main")

SpecDegraded == Init /\ [][NextDegraded]_vars

\* ------------------------------------------------- the suspendable clock

\* The scopes that run under timed_suspendable
TimedKinds == {"timed_activity", "simple_task"}

\* The START numbers of the open scopes whose stop_time and resume_time hooks
\* _signals.suspendable has installed
TimedIds ==
    {stack[t][i].id : <<t, i>> \in
        {x \in Threads \X (1..MaxDepth + 1) :
            /\ x[2] <= Len(stack[x[1]])
            /\ stack[x[1]][x[2]].kind \in TimedKinds}}

\* timedata.start_time of the open scope with START number id
StartTime(id) ==
    LET x == CHOOSE x \in Threads \X (1..MaxDepth + 1) :
                 /\ x[2] <= Len(stack[x[1]])
                 /\ stack[x[1]][x[2]].kind \in TimedKinds
                 /\ stack[x[1]][x[2]].id = id
    IN  stack[x[1]][x[2]].start

\* stop_time() of the scope id: stopped_time = now. As history the clock keeps
\* the start time the scope had when it was first stopped (began) and the sum
\* of its stopped intervals (slept).
StopTime(cl, id) ==
    IF id \in DOMAIN cl
    THEN [cl EXCEPT ![id].stopped_time = <<now>>]
    ELSE cl @@ (id :> [stopped_time |-> <<now>>, began |-> StartTime(id), slept |-> 0])

\* A resume_time() that restarts the measurement at the resume
ResumeTimeRestarts(f, cl) == [f EXCEPT !.start = now]

\* resume_time() of the scope of frame f:
\* sleep_time = now - stopped_time; timedata.start_time += sleep_time
ResumeTime(f, cl) == [f EXCEPT !.start = @ + (now - cl[f.id].stopped_time[1])]

\* datetime.datetime.now() advances while an activity is timed, whether the
\* process runs or is stopped
ClockTick ==
    /\ now < MaxClock
    /\ TimedIds # {}
    /\ now' = now + 1
    /\ UNCHANGED <<handlers, locals, root, stack, exc, files, hooks, ops, calls, upstream>>
    /\ UNCHANGED others

\* The process is stopped: the stop hook of every open timed scope runs
Stop ==
    /\ ~suspended
    /\ TimedIds # {}
    /\ suspended' = TRUE
    /\ clocks' = [id \in TimedIds |-> StopTime(clocks, id)[id]]
    /\ UNCHANGED <<handlers, locals, root, stack, exc, files, hooks, now, ops, calls, upstream>>
    /\ UNCHANGED <<taskvars, got, extras>>

\* The process continues: the resume hook of every open timed scope runs
Resume ==
    /\ suspended
    /\ suspended' = FALSE
    /\ stack' = [t \in Threads |->
                    [i \in 1..Len(stack[t]) |->
                        IF stack[t][i].kind \in TimedKinds
                        THEN ResumeTime(stack[t][i], clocks)
                        ELSE stack[t][i]]]
    /\ clocks' = [id \in DOMAIN clocks |->
                    IF id \in TimedIds
                    THEN [clocks[id] EXCEPT !.slept = @ + (now - clocks[id].stopped_time[1])]
                    ELSE clocks[id]]
    /\ UNCHANGED <<handlers, locals, root, exc, files, hooks, now, ops, calls, upstream>>
    /\ UNCHANGED <<taskvars, got, extras>>

\* One thread times nested activities while the process is stopped and resumed
NextClock ==
    \/ ClockTick
    \/ Stop
    \/ Resume
    \/ /\ ~suspended
       /\ \/ SetMessageHandler("main")
          \/ EnterTimedActivity("main", FALSE)
          \/ ExitTimedActivity("main")
          \/ Raise("main", "BstError")
          \/ Caught("main")

SpecClock == Init /\ [][NextClock]_vars

\* The host runs the stop hook of the activity, whatever it ran before
StopHook ==
    /\ TimedIds # {}
    /\ suspended' = TRUE
    /\ clocks' = [id \in TimedIds |-> StopTime(clocks, id)[id]]
    /\ UNCHANGED <<handlers, locals, root, stack, exc, files, hooks, now, ops, calls, upstream>>
    /\ UNCHANGED <<taskvars, got, extras>>

\* resume_time() of a scope whose stop_time() never ran: stopped_time is None
\* and `now - None` raises
ResumeTimeError(f, cl) == IF f.id \in DOMAIN cl THEN NoError ELSE "TypeError"

\* The host runs the resume hook of the activity that thread t has open,
\* whatever it ran before: the hook raises in the body, or moves start_time.
\* (A run is followed until start_time has passed the current time.)
ResumeHook(t) ==
    /\ stack[t] # <<>>
    /\ Top(t).kind \in TimedKinds
    /\ Running(t)
    /\ Top(t).start <= now
    /\ suspended' = FALSE
    /\ IF ResumeTimeError(Top(t), clocks) # NoError
       THEN /\ exc' = [exc EXCEPT ![t] = ResumeTimeError(Top(t), clocks)]
            /\ UNCHANGED <<stack, clocks>>
       ELSE /\ stack' = [stack EXCEPT ![t][Len(stack[t])] = ResumeTime(Top(t), clocks)]
            /\ clocks' = [clocks EXCEPT ![Top(t).id].slept =
                              @ + (now - clocks[Top(t).id].stopped_time[1])]
            /\ UNCHANGED exc
    /\ UNCHANGED <<handlers, locals, root, files, hooks, now, ops, calls, upstream>>
    /\ UNCHANGED <<taskvars, got, extras>>

\* One thread times one activity at a time while the host runs the stop and
\* the resume hook in any order
NextHooks ==
    \/ ClockTick
    \/ StopHook
    \/ ResumeHook("main")
    \/ /\ ~suspended
       /\ \/ SetMessageHandler("main")
          \/ stack["main"] = <<>> /\ EnterTimedActivity("main", FALSE)
          \/ ExitTimedActivity("main")
          \/ Raise("main", "BstError")
          \/ Caught("main")

SpecHooks == Init /\ [][NextHooks]_vars

\* ------------------------------------------------------ task progress

\* The values a body reports as current and as maximum progress
Progresses == 0..MaxProgress

\* The seconds a body sleeps at a time
Naps == {1, DisplayLimit}

\* _Task.set_current_progress called by the body of thread t on the task of
\* its innermost scope: the value is kept and the render callback called
SetCurrentProgress(t, n) ==
    /\ MayCall(t)
    /\ stack[t] # <<>>
    /\ Top(t).kind = "simple_task"
    /\ ops' = ops + 1
    /\ taskobjs' = [taskobjs EXCEPT ![Top(t).id].current_progress = <<n>>]
    /\ RenderStatus(t)
    /\ UNCHANGED <<handlers, locals, root, stack, files, hooks, now, calls, upstream>>
    /\ UNCHANGED <<state, active, render_cb, pending, quiet, clockvars, got, extras>>

\* _Task.set_maximum_progress, likewise
SetMaximumProgress(t, n) ==
    /\ MayCall(t)
    /\ stack[t] # <<>>
    /\ Top(t).kind = "simple_task"
    /\ ops' = ops + 1
    /\ taskobjs' = [taskobjs EXCEPT ![Top(t).id].maximum_progress = <<n>>]
    /\ RenderStatus(t)
    /\ UNCHANGED <<handlers, locals, root, stack, files, hooks, now, calls, upstream>>
    /\ UNCHANGED <<state, active, render_cb, pending, quiet, clockvars, got, extras>>

\* The body of an activity or task sleeps d seconds
Sleep(d) ==
    /\ d > 0
    /\ now + d <= MaxSleep
    /\ \E t \in Threads : stack[t] # <<>> /\ Running(t) /\ Top(t).kind \in TimedKinds
    /\ now' = now + d
    /\ UNCHANGED <<handlers, locals, root, stack, exc, files, hooks, ops, calls, upstream>>
    /\ UNCHANGED others

\* One thread opens simple tasks one after the other, with a State or
\* without, whose bodies sleep and report progress
NextDetail ==
    \/ SetState
    \/ SetMessageHandler("main")
    \/ \E d \in Naps : Sleep(d)
    \/ stack["main"] = <<>> /\ EnterSimpleTask("main", NoName, FALSE)
    \/ ExitSimpleTask("main")
    \/ ExitTimedActivity("main")
    \/ \E n \in Progresses : SetCurrentProgress("main", n)
    \/ \E n \in Progresses : SetMaximumProgress("main", n)
    \/ Raise("main", "BstError")
    \/ Caught("main")

SpecDetail == InitEnv /\ [][NextDetail]_vars

\* ----------------------------------------------------------- reentry

\* The log file names a job and the calls in its body give
JobNames == {"build", "fetch"}

\* One thread records a job; its body reports, silences, calls
\* recorded_messages again and catches what that raises
NextReentry ==
    \/ SetMessageHandler("main")
    \/ \E f \in JobNames : EnterRecordedMessages("main", f)
    \/ ExitRecordedMessages("main")
    \/ \E type \in JobTypes : Message("main", type, FALSE)
    \/ EnterSilence("main", TRUE)
    \/ ExitSilence("main")
    \/ Catch("main")
    \/ Caught("main")

SpecReentry == Init /\ [][NextReentry]_vars

\* ---------------------------------------------------------- routing

\* One step of a thread that reports through its own handler and through the
\* root handler, silenced or not
RouteStep(t) ==
    \/ \E u \in BOOLEAN : Message(t, "info", u)
    \/ EnterSilence(t, TRUE)
    \/ ExitSilence(t)
    \/ EnterTimedActivity(t, TRUE)
    \/ ExitTimedActivity(t)
    \/ Caught(t)

\* The main thread owns the root handler, the worker thread has its own
NextRoute ==
    \/ SetRootMessageHandler("main")
    \/ SetMessageHandler("worker")
    \/ \E t \in Threads : RouteStep(t)

SpecRoute == Init /\ [][NextRoute]_vars

\* ------------------------------------------------------- log timecodes

\* EMPTYTIME = "--:--:--", as its characters
EmptyTime == <<"-", "-", ":", "-", "-", ":", "-", "-">>

\* The characters of the decimal digits
Digits == <<"0", "1", "2", "3", "4", "5", "6", "7", "8", "9">>

\* str(n) for n >= 0
RECURSIVE Decimal(_)
Decimal(n) ==
    IF n < 10 THEN <<Digits[n + 1]>> ELSE Decimal(n \div 10) \o <<Digits[(n % 10) + 1]>>

\* "{:d}".format(n): no padding
FormatD(n) == IF n < 0 THEN <<"-">> \o Decimal(-n) ELSE Decimal(n)

\* "{:02d}".format(n): the sign, if any, then zeros up to a width of 2, then the digits
Format02d(n) ==
    IF n < 0 THEN <<"-">> \o Decimal(-n)
    ELSE IF n < 10 THEN <<"0">> \o Decimal(n)
    ELSE Decimal(n)

\* The record kinds whose log line has a timecode
TimedTypes == {"success", "fail"}

\* _MessageHandler._record_message, the timecode of the line of a message of
\* the given type and elapsed time (<<seconds>>, the clock of the model ticks
\* in whole seconds): divmod rounds down, so minutes and seconds are never negative
Timecode(type, elapsed) ==
    IF type \in TimedTypes
    THEN LET hours == elapsed[1] \div (60 * 60)
             remainder == elapsed[1] % (60 * 60)
             minutes == remainder \div 60
             seconds == remainder % 60
         IN  Format02d(hours) \o <<":">> \o Format02d(minutes) \o <<":">> \o Format02d(seconds)
    ELSE EmptyTime

\* The record kinds passed to message()
RecordTypes == {"start", "info", "log"} \cup TimedTypes

\* The elapsed times of activities, in seconds: the hours, minutes and seconds
\* at the edges of the fields, and the negative times a clock that was set
\* back or resumed twice gives
Elapsed ==
    {h * 3600 + m * 60 + x : h \in {0, 1, 9, 10, 99, MaxHours}, m \in {0, 1, 9, 10, 59},
                             x \in {0, 5, 9, 10, 59}}
    \cup {-1, -5, -60, -3600, -3601}

\* _record_message formats the line of a message: SUCCESS and FAIL carry an elapsed time
RecordTimecode(type, elapsed) ==
    /\ type \in TimedTypes <=> elapsed # NoElapsed
    /\ timecode' = <<[type |-> type, elapsed |-> elapsed, timecode |-> Timecode(type, elapsed)]>>
    /\ UNCHANGED <<handlers, locals, root, stack, exc, files, hooks, now, ops, calls, upstream>>
    /\ UNCHANGED <<taskvars, clockvars, got, terminated, test_suite>>

NextTimecode ==
    \E type \in RecordTypes : \E elapsed \in {NoElapsed} \cup {<<x>> : x \in Elapsed} :
        RecordTimecode(type, elapsed)

SpecTimecode == Init /\ [][NextTimecode]_vars

\* ------------------------------------------------------- termination

\* The last line flush_log writes: "\n\nForcefully terminated\n"
Trailer == [msg |-> 0, type |-> "Forcefully terminated"]

\* A flush_log without the except clause
FlushLogRaises(fs, path, refused) ==
    IF refused
    THEN [files |-> fs, synced |-> FALSE, err |-> "RuntimeError"]
    ELSE [files |-> [fs EXCEPT ![path] = Append(@, Trailer)], synced |-> FALSE, err |-> NoError]

\* flush_log, the closure of recorded_messages over the file it opened: write
\* the trailer and flush; a write the I/O stack refuses (RuntimeError, the
\* process was inside it when the signal came) is replaced by os.fsync
FlushLog(fs, path, refused) ==
    IF refused
    THEN [files |-> fs, synced |-> TRUE, err |-> NoError]
    ELSE [files |-> [fs EXCEPT ![path] = Append(@, Trailer)], synced |-> FALSE, err |-> NoError]

\* The handlers whose flush_log has run
Flushed == {terminated[i].h : i \in 1..Len(terminated)}

\* The process is terminated: the installed flush_log of handler h runs, with
\* the I/O stack refusing the write or not
Terminate(h, refused) ==
    /\ h \in hooks
    /\ h \notin Flushed
    /\ LET r == FlushLog(files, ScopeFile(h), refused)
       IN  /\ files' = r.files
           /\ terminated' = Append(terminated, [h |-> h, file |-> ScopeFile(h),
                                                synced |-> r.synced, err |-> r.err])
    /\ UNCHANGED <<handlers, locals, root, stack, exc, hooks, now, ops, calls, upstream>>
    /\ UNCHANGED <<taskvars, clockvars, got, test_suite, timecode>>

\* Two threads run a job each until the process is terminated
NextTerm ==
    \/ /\ terminated = <<>>
       /\ NextThreads
    \/ \E h \in Handlers : \E refused \in BOOLEAN : Terminate(h, refused)

SpecTerm == Init /\ [][NextTerm]_vars

\* ------------------------------------------------------------- properties

\* Thread t leaves its innermost scope, of the given kind, in this step
ExitStep(t, kind) ==
    /\ stack[t] # <<>>
    /\ Top(t).kind = kind
    /\ stack'[t] = SubSeq(stack[t], 1, Len(stack[t]) - 1)

\* Thread t enters a scope of the given kind in this step
EnterStep(t, kind) ==
    /\ Len(stack'[t]) = Len(stack[t]) + 1
    /\ stack'[t][Len(stack'[t])].kind = kind

\* The number of records of the given type that activity id passed to message()
Count(cs, id, type) ==
    Cardinality({i \in 1..Len(cs) : cs[i].act = id /\ cs[i].type = type})

\* The invocations of a handler callback with record number n
Deliveries(n) == {j \in 1..Len(upstream) : upstream[j].msg = n}

\* The records passed to message() through a handler whose recording scope logs to p
Recorded(p) == {i \in 1..Len(calls) : calls[i].scope = p}

\* C1: when the body of a timed_activity raises a BstError, the activity has
\* passed exactly one START and then exactly one FAIL record, carrying the
\* elapsed time, to message(), no SUCCESS record, and the BstError propagates.
C1_DomainErrorFails ==
    [][\A t \in Threads :
        (ExitStep(t, "timed_activity") /\ exc[t] = "BstError") =>
            /\ Count(calls', Top(t).id, "start") = 1
            /\ Count(calls', Top(t).id, "fail") = 1
            /\ Count(calls', Top(t).id, "success") = 0
            /\ calls' = Append(calls, calls'[Len(calls')])
            /\ calls'[Len(calls')].type = "fail"
            /\ calls'[Len(calls')].act = Top(t).id
            /\ calls'[Len(calls')].elapsed = <<now - Top(t).start>>
            /\ exc'[t] = "BstError"]_vars

\* C2: when the body of a timed_activity returns, the activity's START record
\* precedes every record passed since, exactly one SUCCESS record with the
\* elapsed time follows them all, and the activity passes no FAIL record.
C2_SuccessBrackets ==
    [][\A t \in Threads :
        (ExitStep(t, "timed_activity") /\ exc[t] = NoError) =>
            /\ Count(calls', Top(t).id, "start") = 1
            /\ calls[Top(t).id].type = "start"
            /\ Count(calls', Top(t).id, "success") = 1
            /\ Count(calls', Top(t).id, "fail") = 0
            /\ calls' = Append(calls, calls'[Len(calls')])
            /\ calls'[Len(calls')].type = "success"
            /\ calls'[Len(calls')].act = Top(t).id
            /\ calls'[Len(calls')].elapsed = <<now - Top(t).start>>]_vars

\* C3: when the body of a timed_activity raises an error that is no BstError,
\* that error propagates and the activity passes neither FAIL nor SUCCESS.
C3_OtherErrorPropagates ==
    [][\A t \in Threads :
        (ExitStep(t, "timed_activity") /\ exc[t] \notin {NoError, "BstError"}) =>
            /\ exc'[t] = exc[t]
            /\ calls' = calls
            /\ Count(calls', Top(t).id, "start") = 1
            /\ Count(calls', Top(t).id, "fail") = 0
            /\ Count(calls', Top(t).id, "success") = 0]_vars

\* C4: every FAIL record passed to message() reaches a handler callback
\* exactly once, whatever the silence depth and the recording state.
C4_FailDelivered ==
    \A i \in 1..Len(calls) :
        calls[i].type = "fail" => Cardinality(Deliveries(i)) = 1

\* C5: when a silence(actually_silence=True) scope or a timed_activity with
\* silent_nested=True exits, by return or by any error, the silence depth of
\* its handler is what it was before the scope was entered.
C5_DepthRestored ==
    [][\A t \in Threads :
        ((ExitStep(t, "silence") \/ ExitStep(t, "timed_activity")) /\ Top(t).flag) =>
            handlers'[Top(t).h].depth = Top(t).pre]_vars

\* C6: the silence depth of every message handler is never negative.
C6_DepthNonNegative == \A h \in Handlers : handlers[h].depth >= 0

\* C6 witness: the exit of a silence scope found the depth already at 0 (a
\* recording scope entered in its body had reset it) and raised.
C6_Witness ==
    /\ exc["main"] = "AssertionError"
    /\ stack["main"] = <<>>
    /\ locals["main"] # NoHandler
    /\ root # NoHandler
    /\ RecordedMessagesAccepts(handlers, "main")
    /\ handlers["main"].depth = 0
    /\ files # <<>>

\* C7: entering and leaving a silence(actually_silence=False) scope changes no
\* handler (no silence depth, so no record's silenced state) and raises nothing.
C7_NoOpSilence ==
    [][\A t \in Threads :
        (\/ EnterStep(t, "silence") /\ ~stack'[t][Len(stack'[t])].flag
         \/ ExitStep(t, "silence") /\ ~Top(t).flag) =>
            /\ handlers' = handlers
            /\ exc' = exc
            /\ locals[t] # NoHandler =>
                   SilentMessages(handlers', locals[t]) = SilentMessages(handlers, locals[t])]_vars

\* C7 witness: a silence(actually_silence=False) scope is open inside a
\* silenced context.
C7_Witness ==
    /\ stack["main"] # <<>>
    /\ Top("main").kind = "silence"
    /\ ~Top("main").flag
    /\ Top("main").pre > 0
    /\ handlers["main"].depth = Top("main").pre

\* The recording scopes open on handler h
RecordingFrames(h) ==
    {x \in Threads \X (1..MaxDepth + 1) :
        /\ x[2] <= Len(stack[x[1]])
        /\ stack[x[1]][x[2]].kind = "recorded_messages"
        /\ stack[x[1]][x[2]].h = h}

\* C8: recorded_messages entered by a thread whose handler has a log handle or
\* a log filename set raises AssertionError and opens no scope; no handler ever
\* has two recording scopes open.
C8_NoReentry ==
    [][\A t \in Threads :
        /\ ((\E f \in FileNames : EnterRecordedMessages(t, f))
              /\ locals[t] # NoHandler
              /\ (handlers[locals[t]].log_handle # NoFile
                    \/ handlers[locals[t]].log_filename # NoFile)) =>
               /\ exc'[t] = "AssertionError"
               /\ UNCHANGED <<handlers, stack, files, hooks>>
        /\ \A h \in Handlers : (Cardinality(RecordingFrames(h)) <= 1)']_vars

\* C8 witness: recorded_messages was called in the body of a recording scope
\* and raised.
C8_Witness ==
    /\ exc["main"] = "AssertionError"
    /\ stack["main"] # <<>>
    /\ Top("main").kind = "recorded_messages"
    /\ root # NoHandler
    /\ ~handlers["main"].closed

\* C9: when a recorded_messages scope exits, by return or by an error of its
\* body, its handler's log_handle and log_filename are both None.
C9_ContextCleared ==
    [][\A t \in Threads :
        ExitStep(t, "recorded_messages") =>
            /\ handlers'[Top(t).h].log_handle = NoFile
            /\ handlers'[Top(t).h].log_filename = NoFile]_vars

\* C10: each log holds, in order and once each, exactly the records passed to
\* message() through a handler while that handler's recording scope logged to
\* it; a record passed while its handler had no recording scope is in no log.
C10_LoggedOnce ==
    \A p \in DOMAIN files :
        /\ Len(files[p]) = Cardinality(Recorded(p))
        /\ \A k \in 1..Len(files[p]) :
            /\ files[p][k].msg \in Recorded(p)
            /\ files[p][k].type = calls[files[p][k].msg].type
            /\ k > 1 => files[p][k - 1].msg < files[p][k].msg

\* C10 witness: a record passed while silenced, inside a recording scope, is
\* in the log.
C10_Witness ==
    \E j \in 1..Len(upstream) :
        /\ upstream[j].is_silenced
        /\ calls[upstream[j].msg].scope # NoFile
        /\ \E k \in 1..Len(files[calls[upstream[j].msg].scope]) :
               files[calls[upstream[j].msg].scope][k].msg = upstream[j].msg

\* history: the start time and the stopped time of the scope of frame f
Began(f) == IF f.id \in DOMAIN clocks THEN clocks[f.id].began ELSE f.start
Slept(f) == IF f.id \in DOMAIN clocks THEN clocks[f.id].slept ELSE 0

\* C13: when every resume follows its own stop, the elapsed time of the
\* SUCCESS or FAIL record of a timed activity is the time since the activity
\* started minus the sum of its stopped intervals.
C13_ElapsedExcludesStops ==
    [][\A t \in Threads :
        (ExitStep(t, "timed_activity") /\ Len(calls') = Len(calls) + 1) =>
            LET m == calls'[Len(calls')]
            IN  /\ m.type \in {"success", "fail"}
                /\ m.elapsed = <<now - Began(Top(t)) - Slept(Top(t))>>]_vars

\* An activity that was stopped for some time has reported a shorter elapsed
\* time than the time since it started
C13_Witness ==
    \E j \in 1..Len(calls) :
        /\ calls[j].type \in {"success", "fail"}
        /\ calls[j].act \in DOMAIN clocks
        /\ clocks[calls[j].act].slept > 0
        /\ calls[j].elapsed[1] > 0

\* C11: any two consecutive invocations of the render status callback are at
\* least one second (RenderInterval) apart, and no invocation comes earlier
\* than one second after the last task that was added while none was active.
C11_RenderThrottled ==
    [][Len(renders') > Len(renders) =>
        LET at == renders'[Len(renders')]
        IN  /\ Len(renders') = Len(renders) + 1
            /\ quiet # <<>>
            /\ at >= quiet[1] + RenderInterval
            /\ renders # <<>> => at >= renders[Len(renders)] + RenderInterval]_vars

\* The render status callback was invoked twice, and again for a task added
\* after all tasks had gone
C11_Witness ==
    /\ Len(renders) >= 2
    /\ quiet # <<>>
    /\ quiet[1] > 0
    /\ renders[Len(renders)] >= quiet[1] + RenderInterval

\* The open simple_task scopes that track a task, as <<thread, position>>
OpenTasks ==
    {x \in Threads \X (1..MaxDepth + 1) :
        /\ x[2] <= Len(stack[x[1]])
        /\ stack[x[1]][x[2]].kind = "simple_task"}

\* C12: with one thread and a State, between operations _next_render is
\* present exactly when _active_simple_tasks > 0, it is None once the last
\* simple_task scope has exited (by return or by error), and the assertion of
\* _render_status holds when a registered task reports progress.
C12_DeadlineIffActive ==
    /\ []((next_render # <<>>) <=> (active > 0))
    /\ [](OpenTasks = {} => next_render = <<>>)
    /\ [][\A t \in Threads : \A i \in 1..MaxDepth :
            (Progress(t, i) /\ taskobjs[stack[t][i].id].full_name \in state[1])
                => exc'[t] # "AssertionError"]_vars

\* The last of two nested simple tasks has exited on an error, after progress
\* was reported and rendered, and the deadline is cleared
C12_Witness ==
    /\ state # NoState
    /\ OpenTasks = {}
    /\ Len(renders) >= 1
    /\ \E j \in 1..Len(calls) : calls[j].type = "fail"
    /\ \E k \in DOMAIN taskobjs : \E l \in DOMAIN taskobjs : k # l
    /\ next_render = <<>>
    /\ active = 0

\* C14: however the simple_task scopes of different threads interleave, when
\* no thread is inside an update the count is the number of open task scopes,
\* it is 0 with the deadline cleared when all scopes have exited, and the
\* deadline is present while a task scope is open.
C14_CountMatchesScopes ==
    /\ (\A t \in Threads : pending[t] = <<>>) => active = Cardinality(OpenTasks)
    /\ (OpenTasks = {} /\ \A t \in Threads : pending[t] = <<>>) => next_render = <<>>
    /\ OpenTasks # {} => next_render # <<>>

\* Thread t passes a LOG record to message(), through its own handler, while
\* a recording scope of that handler is open on t, in this step
LogStep(t) ==
    /\ Len(calls') = Len(calls) + 1
    /\ calls'[Len(calls')].type = "log"
    /\ calls'[Len(calls')].thread = t
    /\ calls'[Len(calls')].h = locals[t]
    /\ \E i \in 1..Len(stack[t]) :
           stack[t][i].kind = "recorded_messages" /\ stack[t][i].h = locals[t]

\* C15: a LOG record passed to message() while a recording scope is active on
\* the thread is written to the job log and the handler's callback is not invoked.
C15_LogNotForwarded ==
    [][\A t \in Threads :
        LogStep(t) =>
            LET p == handlers[locals[t]].log_handle
            IN  /\ files'[p] = Append(files[p], LogLine(Len(calls'), "log"))
                /\ upstream' = upstream]_vars

\* C15, amended: a LOG record passed to message() while a recording scope is
\* active on the thread is written to the job log and the handler's callback
\* is invoked with it once, is_silenced telling whether the depth is above 0.
C15_LogRecordedAndForwarded ==
    [][\A t \in Threads :
        LogStep(t) =>
            LET p == handlers[locals[t]].log_handle
            IN  /\ files'[p] = Append(files[p], LogLine(Len(calls'), "log"))
                /\ upstream' = Append(upstream,
                                      [msg |-> Len(calls'), h |-> locals[t],
                                       is_silenced |-> handlers[locals[t]].depth > 0])]_vars

\* A LOG record is in the job log of the scope it was passed in and was also
\* passed to the callback, as silenced
C15_Witness ==
    \E j \in 1..Len(calls) :
        /\ calls[j].type = "log"
        /\ calls[j].scope # NoFile
        /\ \E k \in 1..Len(files[calls[j].scope]) : files[calls[j].scope][k].msg = j
        /\ \E d \in Deliveries(j) : upstream[d].is_silenced

\* C16: while a recording scope of a handler is open on a thread, every
\* message() that reaches the handler (writes to its log, reads its depth) is
\* called by that thread, whatever use_root_handler is.
C16_RecorderOwned ==
    [][\A h \in Handlers : \A x \in RecordingFrames(h) :
        (Len(calls') = Len(calls) + 1 /\ calls'[Len(calls')].h = h)
            => calls'[Len(calls')].thread = x[1]]_vars

\* C17: the callback invocations of one handler and the lines of each job log
\* are in the order the records were passed to message(); a record is in the
\* log of its scope when its callback is invoked, and a record whose write
\* failed is not passed to the callback; each job log holds only records
\* passed through the handler of its own scope.
C17_EmissionOrder ==
    /\ [](\A d1 \in 1..Len(upstream) : \A d2 \in 1..Len(upstream) :
            (d1 < d2 /\ upstream[d1].h = upstream[d2].h)
                => upstream[d1].msg < upstream[d2].msg)
    /\ [](\A p \in DOMAIN files : \A k1 \in 1..Len(files[p]) : \A k2 \in 1..Len(files[p]) :
            k1 < k2 => files[p][k1].msg < files[p][k2].msg)
    /\ [](\A d \in 1..Len(upstream) :
            calls[upstream[d].msg].scope # NoFile
                => \E k \in 1..Len(files[calls[upstream[d].msg].scope]) :
                       files[calls[upstream[d].msg].scope][k].msg = upstream[d].msg)
    /\ [][(Len(calls') = Len(calls) + 1
            /\ RecordOutcome(handlers, calls'[Len(calls')].h) = "error")
                => upstream' = upstream]_vars
    /\ [](\A p \in DOMAIN files : \A k \in 1..Len(files[p]) :
            /\ calls[files[p][k].msg].scope = p
            /\ calls[files[p][k].msg].h = calls[files[p][1].msg].h
            /\ calls[files[p][k].msg].thread = calls[files[p][k].msg].h)

\* Two threads with handlers of their own have passed a record each; one of
\* them was recording, and its job log holds its record and not the other's
C17_Witness ==
    /\ Len(upstream) >= 2
    /\ upstream[1].h # upstream[2].h
    /\ \E p \in DOMAIN files :
           /\ Len(files[p]) = 1
           /\ \E j \in 1..Len(calls) : calls[j].scope = NoFile /\ calls[j].h # calls[files[p][1].msg].h

\* C18: without a State, entering simple_task is entering timed_activity with
\* the same silent_nested (the same START record, the same silence scope, and
\* the scope left open is the timed_activity, so that it ends with the same
\* records whatever the body does); no task is made and the count, the
\* deadline and the registry stay as they are.
C18_DegradesToTimedActivity ==
    [][\A t \in Threads : \A n \in FullNames : \A s \in BOOLEAN :
        (state = NoState /\ EnterSimpleTask(t, n, s)) =>
            /\ EnterTimedActivity(t, s)
            /\ stack'[t] # stack[t] => stack'[t][Len(stack'[t])].kind = "timed_activity"
            /\ UNCHANGED <<state, active, next_render, taskobjs, renders>>]_vars

\* Without a State, simple tasks have ended with SUCCESS, with FAIL and with
\* no record, and no task was counted
C18_Witness ==
    /\ state = NoState
    /\ active = 0
    /\ next_render = <<>>
    /\ taskobjs = <<>>
    /\ \E j \in 1..Len(calls) : calls[j].type = "success"
    /\ \E j \in 1..Len(calls) : calls[j].type = "fail"
    /\ Len(calls) = 5

\* C19: with a State, the task of an open simple_task scope is registered
\* under its full_name (activity_name without one); every exit of the scope
\* unregisters it and decrements the count; when the body raises a BstError
\* the scope has passed one START and one FAIL and no SUCCESS to message()
\* and raises the BstError again.
C19_TaskRegisteredWhileOpen ==
    /\ [](\A x \in OpenTasks :
            taskobjs[stack[x[1]][x[2]].id].full_name \in state[1])
    /\ [][\A t \in Threads :
            ExitStep(t, "simple_task") =>
                /\ taskobjs[Top(t).id].full_name \notin state'[1]
                /\ active' = active - 1
                /\ exc[t] = "BstError" =>
                       /\ exc'[t] = "BstError"
                       /\ Count(calls', Top(t).id, "start") = 1
                       /\ Count(calls', Top(t).id, "fail") = 1
                       /\ Count(calls', Top(t).id, "success") = 0]_vars

\* What a failed precondition must leave alone: the handlers, the logs, the
\* callback invocations and the rest of the Messenger's state
Untouched ==
    UNCHANGED <<handlers, locals, root, stack, files, hooks, upstream,
                state, active, next_render, render_cb, taskobjs, got, extras>>

\* C20: message() by a thread with no handler set, message(use_root_handler =
\* True) with no root handler set, and get_log_filename() while no recording
\* scope is open on the thread's handler, each raise, invoke no callback,
\* write no log and change no state of the Messenger.
C20_PreconditionsAbort ==
    [][\A t \in Threads :
        /\ \A type \in JobTypes : \A u \in BOOLEAN :
               (Message(t, type, u) /\ Target(t, u) = NoHandler) =>
                   (exc'[t] # NoError /\ Untouched)
        /\ (GetLogFilename(t) /\ (locals[t] = NoHandler \/ RecordingFrames(locals[t]) = {})) =>
               (exc'[t] # NoError /\ Untouched)]_vars

\* C21: flush_log is installed exactly while a job recording scope is open on
\* the handler; when the process is terminated it appends the trailer
\* "Forcefully terminated" after the lines the log already has, and when the
\* write is refused it syncs the file instead, leaves the log as it is and
\* raises nothing.
C21_HookFlushesOrSyncs ==
    /\ [](hooks = {h \in Handlers : RecordingFrames(h) # {}})
    /\ [][\A h \in Handlers : \A refused \in BOOLEAN :
            Terminate(h, refused) =>
                LET r == terminated'[Len(terminated')]
                IN  /\ r.err = NoError
                    /\ r.file = handlers[h].log_handle
                    /\ IF refused
                       THEN r.synced /\ files' = files
                       ELSE files' = [files EXCEPT ![r.file] = Append(files[r.file], Trailer)]]_vars

\* Both outcomes happened: one log got the trailer after a record, the other was synced
C21_Witness ==
    /\ \E i \in 1..Len(terminated) : terminated[i].synced
    /\ \E i \in 1..Len(terminated) :
            /\ ~terminated[i].synced
            /\ Len(files[terminated[i].file]) >= 2
            /\ files[terminated[i].file][Len(files[terminated[i].file])] = Trailer

\* The SUCCESS and FAIL records of simple tasks and of the activities that
\* simple_task opened without a State
Terminal(type) == {k \in 1..Len(calls) : calls[k].type = type /\ calls[k].act > 0}

\* C22: the SUCCESS record of a simple_task carries a detail exactly when the
\* task's current_progress was reported and the elapsed time is above the
\* display limit (3 s, 0 s in the test suite); the detail is "N of M subtasks
\* processed" with a maximum_progress and "N subtasks processed" without;
\* a FAIL record carries none.
C22_SuccessDetail ==
    /\ \A k \in Terminal("fail") : calls[k].detail = NoDetail
    /\ \A k \in Terminal("success") :
        LET id == calls[k].act
            reported == id \in DOMAIN taskobjs /\ taskobjs[id].current_progress # NoProgress
            due == calls[k].elapsed[1] > (IF test_suite THEN 0 ELSE 3)
        IN  /\ calls[k].detail # NoDetail <=> reported /\ due
            /\ calls[k].detail # NoDetail =>
                 IF taskobjs[id].maximum_progress # NoProgress
                 THEN /\ calls[k].detail[1].format = "{} of {} subtasks processed"
                      /\ calls[k].detail[1].args = <<taskobjs[id].current_progress[1],
                                                      taskobjs[id].maximum_progress[1]>>
                 ELSE /\ calls[k].detail[1].format = "{} subtasks processed"
                      /\ calls[k].detail[1].args = <<taskobjs[id].current_progress[1]>>

\* Outside the test suite a task that reported 0 of 1 subtasks succeeded
\* after 4 s with the detail
C22_Witness ==
    /\ ~test_suite
    /\ \E k \in Terminal("success") :
            /\ calls[k].elapsed = <<4>>
            /\ calls[k].detail = <<[format |-> "{} of {} subtasks processed", args |-> <<0, 1>>]>>

\* The fields of a timecode: the characters between the colons
RECURSIVE Fields(_)
Fields(cs) ==
    IF \A i \in 1..Len(cs) : cs[i] # ":" THEN <<cs>>
    ELSE LET i == CHOOSE i \in 1..Len(cs) : cs[i] = ":" /\ \A j \in 1..(i - 1) : cs[j] # ":"
         IN  <<SubSeq(cs, 1, i - 1)>> \o Fields(SubSeq(cs, i + 1, Len(cs)))

\* The number that the digits cs spell
RECURSIVE Number(_)
Number(cs) ==
    IF cs = <<>> THEN 0
    ELSE 10 * Number(SubSeq(cs, 1, Len(cs) - 1))
         + (CHOOSE d \in 0..9 : Digits[d + 1] = cs[Len(cs)])

\* The integer that a field spells
Value(cs) == IF cs[1] = "-" THEN 0 - Number(Tail(cs)) ELSE Number(cs)

\* C23: the timecode of a log line is "--:--:--" for every record kind other
\* than SUCCESS and FAIL; for SUCCESS and FAIL with an elapsed time of E whole
\* seconds it is H:M:S with H*3600 + M*60 + S = E, 0 <= M < 60, 0 <= S < 60,
\* each field at least two characters wide, all of them digits when E >= 0.
C23_Timecode ==
    \A i \in 1..Len(timecode) :
        LET r == timecode[i]
            f == Fields(r.timecode)
        IN  IF r.type \notin {"success", "fail"}
            THEN r.timecode = <<"-", "-", ":", "-", "-", ":", "-", "-">>
            ELSE /\ Len(f) = 3
                 /\ \A k \in 1..3 :
                        /\ Len(f[k]) >= 2
                        /\ \A j \in 1..Len(f[k]) :
                               \/ \E d \in 1..10 : Digits[d] = f[k][j]
                               \/ r.elapsed[1] < 0 /\ k = 1 /\ j = 1 /\ f[k][j] = "-"
                 /\ Value(f[1]) * 3600 + Value(f[2]) * 60 + Value(f[3]) = r.elapsed[1]
                 /\ Value(f[2]) \in 0..59
                 /\ Value(f[3]) \in 0..59

\* A SUCCESS line of an activity that took 5 s has the timecode 00:00:05
C23_Witness ==
    timecode = <<[type |-> "success", elapsed |-> <<5>>,
                  timecode |-> <<"0", "0", ":", "0", "0", ":", "0", "5">>]>>

\* The callback is invoked in this step
Delivered == Len(upstream') = Len(upstream) + 1

\* C24: the is_silenced flag the callback gets with a record is (silence
\* depth > 0) of the handler the record is routed through at that moment, the
\* calling thread's own handler or, with use_root_handler, the root handler;
\* entering or leaving a silence scope changes no other handler.
C24_FlagOfRoutingHandler ==
    /\ [][\A t \in Threads : \A u \in BOOLEAN :
            Message(t, "info", u) /\ Delivered =>
                LET d == upstream'[Len(upstream')]
                IN  /\ d.h = IF u THEN root ELSE locals[t]
                    /\ d.is_silenced = (handlers[d.h].depth > 0)]_vars
    /\ [][\A t \in Threads :
            (EnterTimedActivity(t, TRUE) \/ ExitTimedActivity(t)) /\ Delivered =>
                LET d == upstream'[Len(upstream')]
                    hs == IF Len(stack'[t]) < Len(stack[t]) THEN handlers' ELSE handlers
                IN  /\ d.h = locals[t]
                    /\ d.is_silenced = (hs[d.h].depth > 0)]_vars
    /\ [][\A t \in Threads : EnterSilence(t, TRUE) \/ ExitSilence(t) =>
            \A h \in Handlers \ {locals[t]} : handlers'[h] = handlers[h]]_vars

\* The worker, inside a silence scope of its own handler, passed a record
\* through the root handler that was delivered as not silenced and one through
\* its own that was delivered as silenced
C24_Witness ==
    /\ handlers["worker"].depth > 0
    /\ \E i \in 1..Len(upstream) : \E j \in 1..Len(upstream) :
            /\ calls[upstream[i].msg].thread = "worker"
            /\ upstream[i].h = "main"
            /\ ~upstream[i].is_silenced
            /\ calls[upstream[j].msg].thread = "worker"
            /\ upstream[j].h = "worker"
            /\ upstream[j].is_silenced

\* Thread t has an activity or task open that it entered with silent_nested=True
InSilentNested(t) ==
    \E i \in 1..Len(stack[t]) : stack[t][i].kind \in TimedKinds /\ stack[t][i].flag

\* C25: the START record and the SUCCESS or FAIL record of an activity
\* entered with silent_nested=True are delivered as silenced exactly when the
\* depth was above 0 before the activity, and every record that the body of
\* such an activity passes to message() is delivered as silenced.
C25_SilentNestedRecords ==
    /\ [][\A t \in Threads :
            EnterTimedActivity(t, TRUE) /\ Delivered =>
                upstream'[Len(upstream')].is_silenced = (handlers[locals[t]].depth > 0)]_vars
    /\ [][\A t \in Threads :
            ExitStep(t, "timed_activity") /\ Top(t).flag /\ Delivered =>
                upstream'[Len(upstream')].is_silenced = (Top(t).pre > 0)]_vars
    /\ [][\A t \in Threads : \A type \in BodyTypes :
            Message(t, type, FALSE) /\ InSilentNested(t) /\ Delivered =>
                upstream'[Len(upstream')].is_silenced]_vars

\* A task is added to the registry in this step; one is removed from it; the
\* render status callback is invoked
Added == state # NoState /\ state'[1] \ state[1] # {}
Removed == state # NoState /\ state[1] \ state'[1] # {}
Rendered == Len(renders') = Len(renders) + 1

\* C26: the render deadline changes only when a task is added with no deadline
\* present (to now + 1 s), when the render callback is invoked (to the time of
\* the render + 1 s) and when the count reaches 0 (to None), and these steps do
\* change it so; adding a task while the count is above 0, removing a task
\* that leaves the count above 0 and a progress update that does not render
\* leave it as it is.
C26_DeadlineChanges ==
    [][/\ next_render' # next_render =>
            \/ Added /\ next_render = <<>> /\ next_render' = <<now + 1>>
            \/ Rendered /\ next_render' = <<renders'[Len(renders')] + 1>>
            \/ active' = 0 /\ active > 0 /\ next_render' = <<>>
       /\ Added /\ next_render = <<>> => next_render' = <<now + 1>>
       /\ Rendered => next_render' = <<now + 1>> /\ renders'[Len(renders')] = now
       /\ active' = 0 /\ active > 0 => next_render' = <<>>
       /\ Added /\ active > 0 => next_render' = next_render
       /\ Removed /\ active' > 0 => next_render' = next_render
       /\ (\E i \in 1..MaxDepth : Progress("main", i)) /\ ~Rendered =>
            next_render' = next_render]_vars

\* Two tasks were added, one while the other was active, the callback was
\* invoked later than the deadline, and the last task removed cleared the deadline
C26_Witness ==
    /\ \E k \in DOMAIN taskobjs : \E l \in DOMAIN taskobjs : k # l
    /\ \E i \in 1..Len(renders) : renders[i] > quiet[1] + 1
    /\ stack["main"] = <<>>
    /\ active = 0
    /\ next_render = <<>>

\* C27: whatever the nesting of silence scopes, silent_nested activities and
\* job recording scopes on a thread, a silencing scope finds the depth above 0
\* when it exits (its assertion holds), and the depth in force when a job
\* recording scope was entered is in force again when that scope has exited.
C27_NestingKeepsDepth ==
    /\ [][\A t \in Threads :
            (ExitStep(t, "silence") \/ ExitStep(t, "timed_activity")) /\ Top(t).flag =>
                /\ handlers[Top(t).h].depth > 0
                /\ exc'[t] = "AssertionError" => exc[t] = "AssertionError"]_vars
    /\ [][\A t \in Threads :
            ExitStep(t, "recorded_messages") =>
                handlers'[Top(t).h].depth = Top(t).pre]_vars

\* C28: recorded_messages called while a job recording scope is open on the
\* thread's handler raises and changes nothing (no field of a handler, so not
\* the log handle, the log filename or the silence depth; no file, no scope,
\* no termination hook), and every record the thread passes while the scope is
\* open, so also after such a call, is appended to the log of that scope.
C28_RejectedReentryChangesNothing ==
    /\ [][\A t \in Threads : \A f \in {"build", "fetch"} :
            EnterRecordedMessages(t, f) /\ locals[t] # NoHandler
              /\ RecordingFrames(locals[t]) # {} =>
                /\ exc'[t] = "AssertionError"
                /\ handlers' = handlers
                /\ files' = files
                /\ stack' = stack
                /\ hooks' = hooks]_vars
    /\ [][\A t \in Threads : \A type \in {"log", "info"} :
            Message(t, type, FALSE) /\ locals[t] # NoHandler
              /\ RecordingFrames(locals[t]) # {} =>
                LET p == ScopeFile(locals[t])
                IN  /\ handlers[locals[t]].log_handle = p
                    /\ files' = [files EXCEPT ![p] = Append(files[p], [msg |-> Len(calls'),
                                                                        type |-> type])]]_vars

\* recorded_messages was called for another log inside a silence scope in the
\* body of a recording scope, and raised: the depth is 1, the first log is
\* the handle and the other log does not exist
C28_Witness ==
    /\ exc["main"] = "AssertionError"
    /\ Len(stack["main"]) = 2
    /\ stack["main"][1].kind = "recorded_messages"
    /\ stack["main"][2].kind = "silence"
    /\ handlers["main"].depth = 1
    /\ handlers["main"].log_handle = stack["main"][1].file
    /\ DOMAIN files = {stack["main"][1].file}

\* C29: in whatever order the host runs the stop and the resume hook of a
\* timed activity, the resume hook raises nothing, the start time of the
\* activity is never later than the current time, and no SUCCESS or FAIL
\* record carries a negative elapsed time.
C29_HooksInAnyOrder ==
    /\ [][\A t \in Threads : ResumeHook(t) => exc' = exc]_vars
    /\ [](\A t \in Threads : \A i \in 1..Len(stack[t]) :
            stack[t][i].kind \in TimedKinds => stack[t][i].start <= now)
    /\ [](\A k \in 1..Len(calls) :
            calls[k].elapsed # NoElapsed => calls[k].elapsed[1] >= 0)

\* C30: the count of active simple tasks is never negative, and a simple_task
\* whose entry fails (START or the registration raises, so the scope neither
\* registered a task nor incremented the count) leaves the count and the
\* registry as they were.
C30_FailedEntryLeavesOthers ==
    /\ [](active >= 0)
    /\ [][\A t \in Threads : \A n \in FullNames : \A s \in BOOLEAN :
            TrackedEnter(t, n, s) /\ exc'[t] # NoError =>
                /\ active' = active
                /\ state' = state]_vars

====
